---- MODULE Spec2Model ----
(***************************************************************************)
(* Model of generate_click_flow_with_screens.py: the tree indexer, the     *)
(* ancestor walk, the clickable extractor, the ordering engine and the     *)
(* screenshot fetch phase of main().                                       *)
(*                                                                         *)
(* Representation.  A document tree is a sequence of node records; node 1  *)
(* is the root and every other node names its parent by index (par),       *)
(* children being visited in ascending index order.  Python dicts are      *)
(* functions whose DOMAIN is the set of keys.  A string is a sequence of   *)
(* tokens (one-character strings, or a whole word where the code never     *)
(* looks inside it), so that strip(), replace() and basename() compute.    *)
(* Node ids are positive integers; NoId stands for None / a missing id.    *)
(***************************************************************************)
EXTENDS Integers, Sequences, FiniteSets, TLC

VARIABLES pc, tree, name_map, parent_map, node_lookup, clickables, ordered,
          start_screen, start_node, current, steps, result, resorted,
          idx, downloaded, calls, outcome, fs

vars == <<pc, tree, name_map, parent_map, node_lookup, clickables, ordered,
          start_screen, start_node, current, steps, result, resorted,
          idx, downloaded, calls, outcome, fs>>

----------------------------------------------------------------------------
(* Bounds of the model *)

\* number of nodes of the documents of SpecWalk and SpecExtract
MaxNodes == 3
\* length of the record lists of SpecSort
MaxLen == 3
\* number of clickable nodes of the documents of Spec
MaxClicks == 3

----------------------------------------------------------------------------
(* Python values *)

\* None where a node id (or a node reference) is expected
NoId == 0
\* None where a file path is expected
NoPath == <<>>

Splash == <<"Splash">>
Unknown == <<"Unknown">>
Target == <<"Target">>

\* dict.get(key, default)
Get(map, key, default) == IF key \in DOMAIN map THEN map[key] ELSE default

\* map[key] = value
Put(map, key, value) == [k \in DOMAIN map \cup {key} |-> IF k = key THEN value ELSE map[k]]

EmptyMap == [k \in {} |-> NoId]

Range(s) == {s[i] : i \in DOMAIN s}

\* str.strip(): leading and trailing whitespace removed
RECURSIVE LStrip(_)
LStrip(s) == IF s # <<>> /\ Head(s) = " " THEN LStrip(Tail(s)) ELSE s

RECURSIVE RStrip(_)
RStrip(s) == IF s # <<>> /\ s[Len(s)] = " " THEN RStrip(SubSeq(s, 1, Len(s) - 1)) ELSE s

Strip(s) == RStrip(LStrip(s))

\* str.replace(" ", "_")
ReplaceSpaces(s) == [i \in DOMAIN s |-> IF s[i] = " " THEN "_" ELSE s[i]]

\* os.path.basename: what follows the last "/"
RECURSIVE Basename(_)
Basename(p) ==
    IF \E i \in DOMAIN p : p[i] = "/" THEN Basename(Tail(p)) ELSE p

----------------------------------------------------------------------------
(* Ordering engine: sort_clickables *)

target_order_preference == (<<"3">> :> 1) @@ (<<"2">> :> 2)

sort_key_Unstripped(click, nm, start) ==
    LET target_name == Get(nm, click.navigates_to, Unknown)
    IN  IF click.from_screen = start THEN <<0, 0>>
        ELSE IF target_name \in DOMAIN target_order_preference
             THEN <<1, target_order_preference[target_name]>>
             ELSE <<2, click.element_y>>

sort_key(click, nm, start) ==
    LET target_name == Strip(Get(nm, click.navigates_to, Unknown))
    IN  IF click.from_screen = start THEN <<0, 0>>
        ELSE IF target_name \in DOMAIN target_order_preference
             THEN <<1, target_order_preference[target_name]>>
             ELSE <<2, click.element_y>>

\* Python's comparison of two 2-tuples of numbers
KeyLess(a, b) == a[1] < b[1] \/ (a[1] = b[1] /\ a[2] < b[2])

\* sorted() is stable: an element goes after every element whose key is not
\* greater than its own
RECURSIVE InsertUnstable(_, _, _, _)
InsertUnstable(s, c, nm, start) ==
    IF s = <<>> THEN <<c>>
    ELSE IF ~KeyLess(sort_key(Head(s), nm, start), sort_key(c, nm, start))
         THEN <<c>> \o s
         ELSE <<Head(s)>> \o InsertUnstable(Tail(s), c, nm, start)

RECURSIVE Insert(_, _, _, _)
Insert(s, c, nm, start) ==
    IF s = <<>> THEN <<c>>
    ELSE IF KeyLess(sort_key(c, nm, start), sort_key(Head(s), nm, start))
         THEN <<c>> \o s
         ELSE <<Head(s)>> \o Insert(Tail(s), c, nm, start)

RECURSIVE sort_clickables(_, _, _)
sort_clickables(cs, nm, start) ==
    IF cs = <<>> THEN <<>>
    ELSE Insert(sort_clickables(SubSeq(cs, 1, Len(cs) - 1), nm, start),
                cs[Len(cs)], nm, start)

----------------------------------------------------------------------------
(* Tree indexer: build_node_maps *)

Indices(t) == [k \in 1..Len(t) |-> k]

\* node.get("children", []), as node indices in document order
Children(t, i) == SelectSeq(Indices(t), LAMBDA j : t[j].par = i)

NoMaps == [name_map |-> EmptyMap, parent_map |-> EmptyMap, node_lookup |-> EmptyMap]

\* pre-order: the node is indexed (a later node with the same id overwrites
\* the entries), then each child with the node as parent
RECURSIVE build_node_maps(_, _, _)
RECURSIVE build_children(_, _, _)
build_node_maps(t, i, maps) ==
    LET node == t[i]
        parent_id == IF node.par # 0 THEN t[node.par].id ELSE NoId
        indexed ==
            IF node.id # NoId
            THEN [name_map    |-> Put(maps.name_map, node.id, node.name),
                  parent_map  |-> Put(maps.parent_map, node.id, parent_id),
                  node_lookup |-> Put(maps.node_lookup, node.id, i)]
            ELSE maps
    IN  build_children(t, Children(t, i), indexed)
build_children(t, kids, maps) ==
    IF kids = <<>> THEN maps
    ELSE build_children(t, Tail(kids), build_node_maps(t, Head(kids), maps))

----------------------------------------------------------------------------
(* Ancestor resolver: find_frame_ancestor *)

IsScreen_TypeOnly(node) == node.type = "FRAME"

\* current.get("type") == "FRAME" and 'absoluteBoundingBox' in current
IsScreen(node) == node.type = "FRAME" /\ node.hasBox

\* one turn of the while loop past the test: the node the parent id resolves to
WalkNext(t, pm, nl, cur) ==
    LET current_id == t[cur].id
        parent_id  == Get(pm, current_id, NoId)
    IN  IF parent_id # NoId THEN Get(nl, parent_id, NoId) ELSE NoId

\* the whole loop; defined where the parent links reach no cycle
RECURSIVE find_frame_ancestor(_, _, _, _)
find_frame_ancestor(t, pm, nl, cur) ==
    IF cur = NoId THEN NoId
    ELSE IF IsScreen(t[cur]) THEN cur
    ELSE find_frame_ancestor(t, pm, nl, WalkNext(t, pm, nl, cur))

----------------------------------------------------------------------------
(* Clickable extractor: extract_clickables *)

\* round(n2 / 2): Python 3 rounds a half to the even neighbour
Round2(n2) ==
    IF n2 % 2 = 0 THEN n2 \div 2
    ELSE LET f == (n2 - 1) \div 2 IN IF f % 2 = 0 THEN f ELSE f + 1

\* interaction.get('type', 'ON_CLICK')
InteractionType(d) == IF d.hasType THEN d.type ELSE "ON_CLICK"

\* the record the two branches append, for a target and an interaction type;
\* coordinates are kept doubled until they are rounded (mid = x + width / 2)
Clickable(t, i, pm, nl, target, itype) ==
    LET node  == t[i]
        box   == node.box
        mid_x == 2 * box.x + box.width
        mid_y == 2 * box.y + box.height
        frame == find_frame_ancestor(t, pm, nl, i)
        from_screen == IF frame # NoId THEN t[frame].name ELSE Unknown
        tap_x == IF frame # NoId /\ t[frame].hasBox
                 THEN mid_x - 2 * t[frame].box.x ELSE mid_x
        tap_y == IF frame # NoId /\ t[frame].hasBox
                 THEN mid_y - 2 * t[frame].box.y ELSE mid_y
    IN  [name             |-> node.name,
         from_screen      |-> from_screen,
         tap_position     |-> [x |-> Round2(tap_x), y |-> Round2(tap_y)],
         navigates_to     |-> target,
         interaction_type |-> itype,
         node_id          |-> node.id,
         element_y        |-> box.y,
         screenshot       |-> NoPath]

\* the for loop over node['prototypeInteractions']
RECURSIVE FromInteractions(_, _, _, _, _)
FromInteractions(t, i, pm, nl, ds) ==
    IF ds = <<>> THEN <<>>
    ELSE (IF Head(ds).target # NoId
          THEN <<Clickable(t, i, pm, nl, Head(ds).target, InteractionType(Head(ds)))>>
          ELSE <<>>)
         \o FromInteractions(t, i, pm, nl, Tail(ds))

NodeClickables_BothBranches(t, i, pm, nl) ==
    LET node == t[i]
        has_link == node.hasPI \/ node.hasTr
    IN  IF ~has_link \/ ~node.hasBox THEN <<>>
        ELSE (IF node.hasPI THEN FromInteractions(t, i, pm, nl, node.pi) ELSE <<>>)
             \o (IF node.hasTr THEN <<Clickable(t, i, pm, nl, node.tr, "ON_CLICK")>>
                 ELSE <<>>)

\* what one node appends, its children aside
NodeClickables(t, i, pm, nl) ==
    LET node == t[i]
        has_link == node.hasPI \/ node.hasTr
    IN  IF ~has_link \/ ~node.hasBox THEN <<>>
        ELSE IF node.hasPI THEN FromInteractions(t, i, pm, nl, node.pi)
        ELSE IF node.hasTr THEN <<Clickable(t, i, pm, nl, node.tr, "ON_CLICK")>>
        ELSE <<>>

\* post-order: the children's records, then the node's
RECURSIVE extract_clickables(_, _, _, _, _)
RECURSIVE extract_children(_, _, _, _, _)
extract_clickables(t, i, pm, nl, acc) ==
    extract_children(t, Children(t, i), pm, nl, acc) \o NodeClickables(t, i, pm, nl)
extract_children(t, kids, pm, nl, acc) ==
    IF kids = <<>> THEN acc
    ELSE extract_children(t, Tail(kids), pm, nl,
                          extract_clickables(t, Head(kids), pm, nl, acc))

----------------------------------------------------------------------------
(* Values of the variables a specification does not use *)

NoTree == <<>>

\* the screenshots directory, the image files, and the two output files with
\* what was written to them
IdleFs == [dir |-> FALSE, files |-> {}, json_written |-> FALSE, json |-> <<>>,
           summary_written |-> FALSE, summary |-> <<>>]

IdleRun ==
    /\ idx = 0
    /\ downloaded = EmptyMap
    /\ calls = <<>>
    /\ outcome = <<>>
    /\ fs = IdleFs

IdleWalk ==
    /\ start_node = NoId
    /\ current = NoId
    /\ steps = 0
    /\ result = NoId

----------------------------------------------------------------------------
(* SpecSort: sort_clickables applied to a list of records, and again to its *)
(* own output                                                               *)

Home == <<"Home">>

\* the name map of the sort inputs: id 1 is named " 3 ", id 2 "2", id 3
\* "Home"; id 4 is not in the document
SortNames == (1 :> <<" ", "3", " ">>) @@ (2 :> <<"2">>) @@ (3 :> <<"H", "o", "m", "e">>)

SortRecord(from, target, y) ==
    [name             |-> <<"Button">>,
     from_screen      |-> from,
     tap_position     |-> [x |-> 0, y |-> 0],
     navigates_to     |-> target,
     interaction_type |-> "ON_CLICK",
     node_id          |-> 7,
     element_y        |-> y,
     screenshot       |-> NoPath]

SortRecords == {SortRecord(from, target, y) :
                    from \in {Splash, Home}, target \in 1..4, y \in {10, 50}}

\* the five records of the tier example
ExA == SortRecord(Splash, 3, 50)
ExB == SortRecord(Home, 1, 50)
ExC == SortRecord(Home, 2, 10)
ExD == SortRecord(Home, 3, 50)
ExE == SortRecord(Home, 4, 10)
Example == {ExA, ExB, ExC, ExD, ExE}

Orders(S) == {s \in [1..Cardinality(S) -> S] : Range(s) = S}

Lists(S, n) == UNION {[1..k -> S] : k \in 0..n}

InitSort ==
    /\ pc = "s_input"
    /\ clickables \in Lists(SortRecords, MaxLen) \cup Orders(Example)
    /\ start_screen \in {Splash, Home}
    /\ name_map = SortNames
    /\ ordered = <<>>
    /\ resorted = <<>>
    /\ tree = NoTree
    /\ parent_map = EmptyMap
    /\ node_lookup = EmptyMap
    /\ IdleWalk
    /\ IdleRun

\* ordered = sort_clickables(clickables, name_map, args.start)
SortStep ==
    /\ pc = "s_input"
    /\ ordered' = sort_clickables(clickables, name_map, start_screen)
    /\ pc' = "s_sorted"
    /\ UNCHANGED <<tree, name_map, parent_map, node_lookup, clickables,
                   start_screen, start_node, current, steps, result, resorted,
                   idx, downloaded, calls, outcome, fs>>

\* the engine applied to its own output
Resort ==
    /\ pc = "s_sorted"
    /\ resorted' = sort_clickables(ordered, name_map, start_screen)
    /\ pc' = "s_resorted"
    /\ UNCHANGED <<tree, name_map, parent_map, node_lookup, clickables, ordered,
                   start_screen, start_node, current, steps, result,
                   idx, downloaded, calls, outcome, fs>>

NextSort == SortStep \/ Resort

SpecSort == InitSort /\ [][NextSort]_vars

Sorted == pc \in {"s_sorted", "s_resorted"}

FromStart(c) == c.from_screen = start_screen

StrippedTargetName(c) == Strip(Get(name_map, c.navigates_to, Unknown))

Ordinary(c) == ~FromStart(c) /\ StrippedTargetName(c) \notin {<<"3">>, <<"2">>}

\* C6: in the output of sort_clickables the records from the start screen come
\* first, then those whose target is named "3", then those whose target is
\* named "2", then the others by ascending element_y; the records A, B, C, D, E
\* of the example come out as A, B, C, E, D from every input order.
C6_TierOrder ==
    Sorted =>
        /\ \A i, j \in DOMAIN ordered :
              LET a == ordered[i]
                  b == ordered[j]
              IN  /\ (FromStart(a) /\ ~FromStart(b)) => i < j
                  /\ (~FromStart(a) /\ ~FromStart(b)
                        /\ StrippedTargetName(a) = <<"3">>
                        /\ StrippedTargetName(b) = <<"2">>) => i < j
                  /\ (~FromStart(a) /\ ~Ordinary(a) /\ Ordinary(b)) => i < j
                  /\ (Ordinary(a) /\ Ordinary(b) /\ a.element_y < b.element_y) => i < j
        /\ (Range(clickables) = Example /\ Len(clickables) = 5 /\ start_screen = Splash)
              => ordered = <<ExA, ExB, ExC, ExE, ExD>>

C6_Witness ==
    /\ pc = "s_sorted"
    /\ start_screen = Splash
    /\ clickables = <<ExD, ExE, ExC, ExB, ExA>>
    /\ ordered = <<ExA, ExB, ExC, ExE, ExD>>

IndexOrders(n) == {p \in [1..n -> 1..n] : Range(p) = 1..n}

\* C7: the output of sort_clickables is a permutation of its input in which
\* records with equal keys keep their input order, and sorting the output
\* again gives the same sequence.
C7_StablePermutation ==
    /\ Sorted =>
          /\ Len(ordered) = Len(clickables)
          /\ \E p \in IndexOrders(Len(clickables)) :
                /\ \A i \in DOMAIN ordered : ordered[i] = clickables[p[i]]
                /\ \A i, j \in DOMAIN ordered :
                      (i < j /\ sort_key(ordered[i], name_map, start_screen)
                                  = sort_key(ordered[j], name_map, start_screen))
                          => p[i] < p[j]
    /\ pc = "s_resorted" => resorted = ordered

C7_Witness ==
    /\ pc = "s_resorted"
    /\ ordered # clickables
    /\ resorted = ordered
    /\ \E i, j \in DOMAIN ordered :
          /\ i < j
          /\ ordered[i] # ordered[j]
          /\ sort_key(ordered[i], name_map, start_screen)
                = sort_key(ordered[j], name_map, start_screen)

----------------------------------------------------------------------------
(* SpecWalk: a document is indexed and find_frame_ancestor walks from one  *)
(* of its nodes, one turn of the while loop per step.  Ids may repeat or   *)
(* be missing.                                                             *)

NoBox == [x |-> 0, y |-> 0, width |-> 0, height |-> 0]

BoxOf(k) == [x |-> 10 * k, y |-> 100 - 30 * k, width |-> 20 + k, height |-> 20]

NoLink == [hasPI |-> FALSE, pi |-> <<>>, hasTr |-> FALSE, tr |-> NoId]

Parents(k) == IF k = 1 THEN {0} ELSE 1..(k - 1)

MkNode(k, id, type, hasBox, par, link) ==
    [id |-> id, name |-> <<"Node", k>>, type |-> type, hasBox |-> hasBox,
     box |-> IF hasBox THEN BoxOf(k) ELSE NoBox, par |-> par,
     hasPI |-> link.hasPI, pi |-> link.pi, hasTr |-> link.hasTr, tr |-> link.tr]

\* type and bounding box of the nodes of SpecWalk: a screen, a FRAME without
\* a box, and a node of another type
WalkKinds == {<<"FRAME", TRUE>>, <<"FRAME", FALSE>>, <<"GROUP", TRUE>>}

\* a node with one of the n ids, or a GROUP without an id
WalkNodes(k, n) ==
    {MkNode(k, id, kind[1], kind[2], par, NoLink) :
        id \in 1..n, kind \in WalkKinds, par \in Parents(k)}
    \cup {MkNode(k, NoId, "GROUP", TRUE, par, NoLink) : par \in Parents(k)}

RECURSIVE WalkTrees(_, _)
WalkTrees(k, n) ==
    IF k = 0 THEN {<<>>}
    ELSE {Append(t, nd) : t \in WalkTrees(k - 1, n), nd \in WalkNodes(k, n)}

\* turns of the loop the model follows before it gives a walk up: a walk that
\* ends makes at most Len(tree) turns, since no node can come twice
WalkCap == MaxNodes + 2

IdleSort ==
    /\ ordered = <<>>
    /\ resorted = <<>>
    /\ start_screen = Splash

InitTree(trees) ==
    /\ pc = "t_input"
    /\ tree \in trees
    /\ name_map = EmptyMap
    /\ parent_map = EmptyMap
    /\ node_lookup = EmptyMap
    /\ clickables = <<>>
    /\ IdleSort
    /\ IdleWalk
    /\ IdleRun

InitWalk == InitTree(WalkTrees(MaxNodes, MaxNodes))

\* name_map, parent_map, node_lookup = {}, {}, {}; build_node_maps(document, ...)
BuildMaps ==
    /\ pc = "t_input"
    /\ LET maps == build_node_maps(tree, 1, NoMaps)
       IN  /\ name_map' = maps.name_map
           /\ parent_map' = maps.parent_map
           /\ node_lookup' = maps.node_lookup
    /\ pc' = "t_indexed"
    /\ UNCHANGED <<tree, clickables, ordered, start_screen, start_node, current, steps,
                   result, resorted, idx, downloaded, calls, outcome, fs>>

\* find_frame_ancestor(node, ...): current = node
StartWalk(n) ==
    /\ pc = "t_indexed"
    /\ start_node' = n
    /\ current' = n
    /\ steps' = 0
    /\ pc' = "t_walk"
    /\ UNCHANGED <<tree, name_map, parent_map, node_lookup, clickables, ordered,
                   start_screen, result, resorted, idx, downloaded, calls, outcome, fs>>

\* the test of the loop body holds: return current
WalkReturnScreen ==
    /\ pc = "t_walk"
    /\ current # NoId
    /\ IsScreen(tree[current])
    /\ result' = current
    /\ pc' = "t_returned"
    /\ UNCHANGED <<tree, name_map, parent_map, node_lookup, clickables, ordered,
                   start_screen, start_node, current, steps, resorted,
                   idx, downloaded, calls, outcome, fs>>

\* the test fails: current becomes what the parent id resolves to
WalkAdvance ==
    /\ pc = "t_walk"
    /\ current # NoId
    /\ ~IsScreen(tree[current])
    /\ steps < WalkCap
    /\ current' = WalkNext(tree, parent_map, node_lookup, current)
    /\ steps' = steps + 1
    /\ UNCHANGED <<pc, tree, name_map, parent_map, node_lookup, clickables, ordered,
                   start_screen, start_node, result, resorted,
                   idx, downloaded, calls, outcome, fs>>

\* while current: fails; return None
WalkReturnNone ==
    /\ pc = "t_walk"
    /\ current = NoId
    /\ result' = NoId
    /\ pc' = "t_returned"
    /\ UNCHANGED <<tree, name_map, parent_map, node_lookup, clickables, ordered,
                   start_screen, start_node, current, steps, resorted,
                   idx, downloaded, calls, outcome, fs>>

NextWalk ==
    \/ BuildMaps
    \/ \E n \in DOMAIN tree : StartWalk(n)
    \/ WalkReturnScreen
    \/ WalkAdvance
    \/ WalkReturnNone

SpecWalk == InitWalk /\ [][NextWalk]_vars

\* C5: find_frame_ancestor ends for every start node and every content of the
\* maps, parent links that form a cycle included.  A walk that ends makes at
\* most one turn of its loop per node of the document, so the claim is that
\* no walk makes more turns than the document has nodes.
C5_WalkTerminates == pc = "t_walk" => steps <= Len(tree)

UniqueIds(t) ==
    /\ \A i \in DOMAIN t : t[i].id # NoId
    /\ \A i, j \in DOMAIN t : i # j => t[i].id # t[j].id

\* the nearest screen on the chain node, parent, grandparent, ... of the tree
RECURSIVE NearestScreen(_, _)
NearestScreen(t, i) ==
    IF i = 0 THEN NoId
    ELSE IF t[i].type = "FRAME" /\ t[i].hasBox THEN i
    ELSE NearestScreen(t, t[i].par)

\* C9: in a tree whose nodes all have an id of their own, find_frame_ancestor
\* returns the nearest node on the chain node, parent, grandparent, ... that
\* is a FRAME with a bounding box, None when there is none, and a screen node
\* itself when the walk starts from it.
C9_NearestScreen ==
    (pc = "t_returned" /\ UniqueIds(tree)) =>
        /\ result = NearestScreen(tree, start_node)
        /\ (tree[start_node].type = "FRAME" /\ tree[start_node].hasBox) => result = start_node

C9_Witness ==
    /\ pc = "t_returned"
    /\ UniqueIds(tree)
    /\ result # NoId
    /\ tree[start_node].par # 0
    /\ tree[start_node].par # result
    /\ tree[tree[start_node].par].type = "FRAME"
    /\ steps = 2

----------------------------------------------------------------------------
(* SpecExtract: a document whose nodes have ids of their own is indexed and *)
(* extract_clickables collects its records                                  *)

Descriptor(hasType, type, target) == [hasType |-> hasType, type |-> type, target |-> target]

\* the link forms of a node: none; a legacy target alone; a descriptor list
\* alone, its second descriptor without a target; both forms, the list's only
\* descriptor without a target
LinkForms ==
    { NoLink,
      [hasPI |-> FALSE, pi |-> <<>>, hasTr |-> TRUE, tr |-> 1],
      [hasPI |-> TRUE,
       pi |-> <<Descriptor(TRUE, "ON_HOVER", 2), Descriptor(TRUE, "ON_CLICK", NoId),
                Descriptor(FALSE, "", 9)>>,
       hasTr |-> FALSE, tr |-> NoId],
      [hasPI |-> TRUE, pi |-> <<Descriptor(FALSE, "", NoId)>>,
       hasTr |-> TRUE, tr |-> 1] }

ExtractNodes(k) ==
    {MkNode(k, k, type, hasBox, par, link) :
        type \in {"FRAME", "GROUP"}, hasBox \in BOOLEAN, par \in Parents(k),
        link \in LinkForms}

RECURSIVE ExtractTrees(_)
ExtractTrees(k) ==
    IF k = 0 THEN {<<>>}
    ELSE {Append(t, nd) : t \in ExtractTrees(k - 1), nd \in ExtractNodes(k)}

InitExtract == InitTree(ExtractTrees(MaxNodes))

\* clickables = []; extract_clickables(document, parent_map, node_lookup, clickables)
Extract ==
    /\ pc = "t_indexed"
    /\ clickables' = extract_clickables(tree, 1, parent_map, node_lookup, <<>>)
    /\ pc' = "t_extracted"
    /\ UNCHANGED <<tree, name_map, parent_map, node_lookup, ordered, start_screen,
                   start_node, current, steps, result, resorted,
                   idx, downloaded, calls, outcome, fs>>

NextExtract == BuildMaps \/ Extract

SpecExtract == InitExtract /\ [][NextExtract]_vars

\* what a node contributes to the count, stated on the node alone
Contribution(nd) ==
    IF ~nd.hasBox \/ ~(nd.hasPI \/ nd.hasTr) THEN 0
    ELSE IF nd.hasPI THEN Cardinality({k \in DOMAIN nd.pi : nd.pi[k].target # NoId})
    ELSE 1

RECURSIVE SumContributions(_, _)
SumContributions(t, k) ==
    IF k = 0 THEN 0 ELSE Contribution(t[k]) + SumContributions(t, k - 1)

\* C8: extract_clickables emits as many records as the nodes contribute: a
\* node with a bounding box and a descriptor list one per descriptor with a
\* target (its legacy target ignored), a node with a bounding box and a legacy
\* target alone one, every other node none.
C8_ExtractionCount ==
    pc = "t_extracted" => Len(clickables) = SumContributions(tree, Len(tree))

C8_Witness ==
    /\ pc = "t_extracted"
    /\ Len(clickables) = 3
    /\ \E i, j, k \in DOMAIN tree :
          /\ tree[i].hasBox /\ tree[i].hasPI /\ tree[i].hasTr
          /\ tree[j].hasBox /\ tree[j].hasPI /\ ~tree[j].hasTr
          /\ tree[k].hasBox /\ ~tree[k].hasPI /\ tree[k].hasTr

----------------------------------------------------------------------------
(* generate_summary *)

\* the file name of a summary line.  Every record holds the key "screenshot"
\* (None from extraction on), so item.get("screenshot", f"{screen}.png") is
\* the value held and never the default; os.path.basename(None) raises
\* TypeError.
SummaryFallback(item, nm) ==
    ReplaceSpaces(Strip(Get(nm, item.navigates_to, Target))) \o <<".png">>

SummaryImg(item, nm) ==
    LET value == item.screenshot
    IN  IF value = NoPath THEN <<"TypeError">> ELSE Basename(value)

SummaryRaises(cs) == \E i \in DOMAIN cs : cs[i].screenshot = NoPath

generate_summary(cs, nm) ==
    [i \in DOMAIN cs |->
        <<i, "Click_COORD", cs[i].tap_position.x, cs[i].tap_position.y, "CHECK",
          SummaryImg(cs[i], nm)>>]

----------------------------------------------------------------------------
(* Spec: one run of main() *)

NamedNode(nd, name) == [nd EXCEPT !.name = name]

LegacyLink(target) == [hasPI |-> FALSE, pi |-> <<>>, hasTr |-> TRUE, tr |-> target]

\* the documents of a run: the root, the screens "Splash" (id 2) and " A B"
\* (id 3), and one clickable node per element of bs, each inside one of the
\* screens and leading to screen 3 or to id 9, which the document lacks
RunTargets == {3, 9}

RunButtons == {<<par, target>> : par \in {2, 3}, target \in RunTargets}

RunDoc(bs) ==
    << NamedNode(MkNode(1, 1, "DOCUMENT", FALSE, 0, NoLink), <<"Document">>),
       NamedNode(MkNode(2, 2, "FRAME", TRUE, 1, NoLink), Splash),
       NamedNode(MkNode(3, 3, "FRAME", TRUE, 1, NoLink), <<" ", "A", " ", "B">>) >>
    \o [k \in DOMAIN bs |->
          MkNode(3 + k, 3 + k, "RECTANGLE", TRUE, bs[k][1], LegacyLink(bs[k][2]))]

RunDocs == {RunDoc(bs) : bs \in Lists(RunButtons, MaxClicks)}

Init ==
    /\ pc = "m_start"
    /\ tree = NoTree
    /\ name_map = EmptyMap
    /\ parent_map = EmptyMap
    /\ node_lookup = EmptyMap
    /\ clickables = <<>>
    /\ IdleSort
    /\ IdleWalk
    /\ IdleRun

FetchFails_DirFirst ==
    /\ pc = "m_start"
    /\ pc' = "m_aborted"
    /\ fs' = [fs EXCEPT !.dir = TRUE]
    /\ UNCHANGED <<tree, name_map, parent_map, node_lookup, clickables, ordered,
                   start_screen, start_node, current, steps, result, resorted,
                   idx, downloaded, calls, outcome>>

\* fetch_figma_file: raise_for_status() raises, nothing catches it
FetchFails ==
    /\ pc = "m_start"
    /\ pc' = "m_aborted"
    /\ UNCHANGED <<tree, name_map, parent_map, node_lookup, clickables, ordered,
                   start_screen, start_node, current, steps, result, resorted,
                   idx, downloaded, calls, outcome, fs>>

\* data = fetch_figma_file(...)
FetchOk(doc) ==
    /\ pc = "m_start"
    /\ tree' = doc
    /\ pc' = "m_fetched"
    /\ UNCHANGED <<name_map, parent_map, node_lookup, clickables, ordered,
                   start_screen, start_node, current, steps, result, resorted,
                   idx, downloaded, calls, outcome, fs>>

\* build_node_maps, extract_clickables, sort_clickables
Prepare ==
    /\ pc = "m_fetched"
    /\ LET maps == build_node_maps(tree, 1, NoMaps)
           cs   == extract_clickables(tree, 1, maps.parent_map, maps.node_lookup, <<>>)
       IN  /\ name_map' = maps.name_map
           /\ parent_map' = maps.parent_map
           /\ node_lookup' = maps.node_lookup
           /\ clickables' = cs
           /\ ordered' = sort_clickables(cs, maps.name_map, start_screen)
    /\ pc' = "m_makedirs"
    /\ UNCHANGED <<tree, start_screen, start_node, current, steps, result, resorted,
                   idx, downloaded, calls, outcome, fs>>

\* os.makedirs("screenshots", exist_ok=True); downloaded = {}
MakeDirs ==
    /\ pc = "m_makedirs"
    /\ fs' = [fs EXCEPT !.dir = TRUE]
    /\ downloaded' = EmptyMap
    /\ idx' = 1
    /\ pc' = "m_fetch"
    /\ UNCHANGED <<tree, name_map, parent_map, node_lookup, clickables, ordered,
                   start_screen, start_node, current, steps, result, resorted,
                   calls, outcome>>

InLoop == pc = "m_fetch" /\ idx <= Len(ordered)

target_id == ordered[idx].navigates_to

\* f"screenshots/{screen_name}.png"
FilePath(t) ==
    <<"screenshots", "/">> \o ReplaceSpaces(Strip(Get(name_map, t, Target))) \o <<".png">>

Render(t) == <<"render", t>>
Download(t) == <<"download", t>>

RunUnchanged ==
    UNCHANGED <<pc, tree, name_map, parent_map, node_lookup, clickables,
                start_screen, start_node, current, steps, result, resorted>>

FetchCacheHit_NoAssign ==
    /\ InLoop
    /\ target_id \in DOMAIN downloaded
    /\ outcome' = Append(outcome, "hit")
    /\ idx' = idx + 1
    /\ RunUnchanged
    /\ UNCHANGED <<ordered, downloaded, calls, fs>>

\* if target_id in downloaded: item["screenshot"] = downloaded[target_id]; continue
FetchCacheHit ==
    /\ InLoop
    /\ target_id \in DOMAIN downloaded
    /\ ordered' = [ordered EXCEPT ![idx].screenshot = downloaded[target_id]]
    /\ outcome' = Append(outcome, "hit")
    /\ idx' = idx + 1
    /\ RunUnchanged
    /\ UNCHANGED <<downloaded, calls, fs>>

FetchRenderRaises_Abort ==
    /\ InLoop
    /\ target_id \notin DOMAIN downloaded
    /\ calls' = Append(calls, Render(target_id))
    /\ outcome' = Append(outcome, "render_raised")
    /\ pc' = "m_crashed"
    /\ UNCHANGED <<tree, name_map, parent_map, node_lookup, clickables,
                   start_screen, start_node, current, steps, result, resorted>>
    /\ UNCHANGED <<idx, ordered, downloaded, fs>>

\* get_screenshot_url raises; except Exception: the warning is printed
FetchRenderRaises ==
    /\ InLoop
    /\ target_id \notin DOMAIN downloaded
    /\ calls' = Append(calls, Render(target_id))
    /\ outcome' = Append(outcome, "render_raised")
    /\ idx' = idx + 1
    /\ RunUnchanged
    /\ UNCHANGED <<ordered, downloaded, fs>>

\* get_screenshot_url returns None; download_image returns False at once
FetchNoUrl ==
    /\ InLoop
    /\ target_id \notin DOMAIN downloaded
    /\ calls' = Append(calls, Render(target_id))
    /\ outcome' = Append(outcome, "no_url")
    /\ idx' = idx + 1
    /\ RunUnchanged
    /\ UNCHANGED <<ordered, downloaded, fs>>

\* a URL is returned; requests.get(url) raises in download_image
FetchDownloadRaises ==
    /\ InLoop
    /\ target_id \notin DOMAIN downloaded
    /\ calls' = calls \o <<Render(target_id), Download(target_id)>>
    /\ outcome' = Append(outcome, "download_raised")
    /\ idx' = idx + 1
    /\ RunUnchanged
    /\ UNCHANGED <<ordered, downloaded, fs>>

FetchSaved_NoCache ==
    /\ InLoop
    /\ target_id \notin DOMAIN downloaded
    /\ calls' = calls \o <<Render(target_id), Download(target_id)>>
    /\ fs' = [fs EXCEPT !.files = @ \cup {FilePath(target_id)}]
    /\ ordered' = [ordered EXCEPT ![idx].screenshot = FilePath(target_id)]
    /\ outcome' = Append(outcome, "saved")
    /\ idx' = idx + 1
    /\ RunUnchanged
    /\ UNCHANGED downloaded

\* a URL is returned and the image is written; the path is recorded on the
\* record and in downloaded
FetchSaved ==
    /\ InLoop
    /\ target_id \notin DOMAIN downloaded
    /\ calls' = calls \o <<Render(target_id), Download(target_id)>>
    /\ fs' = [fs EXCEPT !.files = @ \cup {FilePath(target_id)}]
    /\ ordered' = [ordered EXCEPT ![idx].screenshot = FilePath(target_id)]
    /\ downloaded' = Put(downloaded, target_id, FilePath(target_id))
    /\ outcome' = Append(outcome, "saved")
    /\ idx' = idx + 1
    /\ RunUnchanged

\* json.dump(ordered, f)
WriteJson ==
    /\ pc = "m_fetch"
    /\ idx > Len(ordered)
    /\ fs' = [fs EXCEPT !.json_written = TRUE, !.json = ordered]
    /\ pc' = "m_summary"
    /\ UNCHANGED <<tree, name_map, parent_map, node_lookup, clickables, ordered,
                   start_screen, start_node, current, steps, result, resorted,
                   idx, downloaded, calls, outcome>>

\* generate_summary returns and click_coord_summary.txt is written
WriteSummary ==
    /\ pc = "m_summary"
    /\ ~SummaryRaises(ordered)
    /\ fs' = [fs EXCEPT !.summary_written = TRUE,
                       !.summary = generate_summary(ordered, name_map)]
    /\ pc' = "m_done"
    /\ UNCHANGED <<tree, name_map, parent_map, node_lookup, clickables, ordered,
                   start_screen, start_node, current, steps, result, resorted,
                   idx, downloaded, calls, outcome>>

\* generate_summary raises TypeError before the summary file is opened
SummaryCrash ==
    /\ pc = "m_summary"
    /\ SummaryRaises(ordered)
    /\ pc' = "m_crashed"
    /\ UNCHANGED <<tree, name_map, parent_map, node_lookup, clickables, ordered,
                   start_screen, start_node, current, steps, result, resorted,
                   idx, downloaded, calls, outcome, fs>>

Next ==
    \/ FetchFails
    \/ \E doc \in RunDocs : FetchOk(doc)
    \/ Prepare
    \/ MakeDirs
    \/ FetchCacheHit
    \/ FetchRenderRaises
    \/ FetchNoUrl
    \/ FetchDownloadRaises
    \/ FetchSaved
    \/ WriteJson
    \/ WriteSummary
    \/ SummaryCrash

Spec == Init /\ [][Next]_vars

----------------------------------------------------------------------------
(* Claims about a run of main() *)

AfterFetch == pc \in {"m_summary", "m_done", "m_crashed"} /\ Len(outcome) = Len(ordered)

Count(call) == Cardinality({i \in DOMAIN calls : calls[i] = call})

\* the records the loop has gone past
Processed == 1..Len(outcome)

Shared(t) ==
    \E i, j \in DOMAIN ordered :
        i # j /\ ordered[i].navigates_to = t /\ ordered[j].navigates_to = t

\* C1: when two records share a navigates_to id, the fetch phase calls the
\* render function once and the download function once for that id, whatever
\* the outcome of each call.
C1_OneCallEach ==
    AfterFetch =>
        \A t \in RunTargets :
            Shared(t) => Count(Render(t)) = 1 /\ Count(Download(t)) = 1

\* C1, amended: for an id shared by several records the render function is
\* called once for each record that the loop leaves without a screenshot and
\* once more for the record whose file is saved, the download function at most
\* once per render call and once where it succeeds; so both are called exactly
\* once when the first record sharing the id has its file saved, and never
\* again after a save.
C1_CallsUntilSaved ==
    \A t \in RunTargets :
        LET failed == {i \in Processed : ordered[i].navigates_to = t
                                           /\ ordered[i].screenshot = NoPath}
            saved  == IF t \in DOMAIN downloaded THEN 1 ELSE 0
            first  == {i \in Processed : /\ ordered[i].navigates_to = t
                                         /\ \A j \in Processed :
                                               ordered[j].navigates_to = t => i <= j}
        IN  /\ Count(Render(t)) = Cardinality(failed) + saved
            /\ Count(Download(t)) <= Count(Render(t))
            /\ Count(Download(t)) >= saved
            /\ (\E i \in first : ordered[i].screenshot # NoPath)
                  => Count(Render(t)) = 1 /\ Count(Download(t)) = 1

C1_Witness ==
    /\ AfterFetch
    /\ \E i, j, k \in DOMAIN ordered :
          /\ i < j /\ j < k
          /\ ordered[i].navigates_to = 3
          /\ ordered[j].navigates_to = 3
          /\ ordered[k].navigates_to = 3
          /\ outcome[i] = "render_raised"
          /\ outcome[j] = "saved"
          /\ outcome[k] = "hit"
    /\ Count(Render(3)) = 2
    /\ Count(Download(3)) = 1

\* C2: when the fetch phase has gone through every record, two records with
\* the same navigates_to id have the same screenshot value, for every sequence
\* of render and download outcomes.
C2_SamePath ==
    AfterFetch =>
        \A i, j \in DOMAIN ordered :
            ordered[i].navigates_to = ordered[j].navigates_to
                => ordered[i].screenshot = ordered[j].screenshot

\* C2, amended: when the fetch phase has gone through every record, a record
\* that has a screenshot shares it with every later record of the same
\* navigates_to id; two records of one id differ only when the earlier one was
\* left without a screenshot.
C2_SamePathOnceSaved ==
    AfterFetch =>
        \A i, j \in DOMAIN ordered :
            (/\ i < j
             /\ ordered[i].navigates_to = ordered[j].navigates_to
             /\ ordered[i].screenshot # NoPath)
                => ordered[j].screenshot = ordered[i].screenshot

C2_Witness ==
    /\ AfterFetch
    /\ \E i, j, k \in DOMAIN ordered :
          /\ i < j /\ j < k
          /\ ordered[i].navigates_to = 9
          /\ ordered[j].navigates_to = 9
          /\ ordered[k].navigates_to = 9
          /\ ordered[i].screenshot = NoPath
          /\ ordered[j].screenshot = <<"screenshots", "/", "Target", ".png">>
          /\ ordered[k].screenshot = ordered[j].screenshot
          /\ outcome[k] = "hit"

\* C3: once the document is fetched the run ends having written the ordered
\* records and the summary, also when records are left without a screenshot;
\* the summary line of such a record names the target's sanitized display name
\* plus ".png".
C3_BothArtifactsWritten ==
    /\ pc # "m_crashed"
    /\ pc = "m_done" =>
          /\ fs.json_written /\ fs.json = ordered
          /\ fs.summary_written /\ Len(fs.summary) = Len(ordered)
          /\ \A i \in DOMAIN ordered :
                ordered[i].screenshot = NoPath
                    => fs.summary[i][6] = SummaryFallback(ordered[i], name_map)

Raised == {"render_raised", "download_raised"}

\* C4: when the render or the download call raises for a record, the record
\* keeps every field, its screenshot absent, downloaded gets no entry, and the
\* loop goes on to the next record: every record is gone through before the
\* outputs are written.
C4_FailureIsolated ==
    /\ [][(Len(outcome') = Len(outcome) + 1 /\ outcome'[Len(outcome')] \in Raised)
            => /\ ordered' = ordered
               /\ ordered[idx].screenshot = NoPath
               /\ downloaded' = downloaded
               /\ fs' = fs
               /\ pc' = "m_fetch"
               /\ idx' = idx + 1]_vars
    /\ [](pc \in {"m_summary", "m_done", "m_crashed"} => Len(outcome) = Len(ordered))

C4_Witness ==
    /\ pc = "m_summary"
    /\ Len(outcome) = 3
    /\ outcome[1] = "render_raised"
    /\ outcome[2] = "download_raised"
    /\ outcome[3] = "saved"
    /\ ordered[1].screenshot = NoPath
    /\ ordered[2].screenshot = NoPath
    /\ ordered[3].screenshot # NoPath
    /\ DOMAIN downloaded = {ordered[3].navigates_to}

NothingDone ==
    /\ calls = <<>>
    /\ ~fs.dir
    /\ fs.files = {}
    /\ ~fs.json_written
    /\ ~fs.summary_written

\* C10: when the document fetch fails the run stops there: no render or
\* download call, no screenshots directory, no output file; whatever a run
\* writes, it writes after the document was fetched.
C10_NothingBeforeFetch ==
    /\ pc \in {"m_start", "m_aborted"} => NothingDone
    /\ ~NothingDone => tree # NoTree

C10_Witness == pc = "m_aborted" /\ NothingDone

====
